---- MODULE Spec2Model ----
(***************************************************************************)
(* The /transcribe request handler of python_backend/main.py: one HTTP     *)
(* request drives one Deepgram live-transcription session.  The handler    *)
(* (transcribe_audio) and the provider's event thread (the on_* callbacks) *)
(* are modelled as interleaved steps; the provider client itself is an     *)
(* environment whose calls return or raise.                                *)
(***************************************************************************)
EXTENDS Integers, Sequences, FiniteSets, TLC

(***************************************************************************)
(* Bounds of the model.                                                    *)
(***************************************************************************)
\* provider events (of any kind) delivered per request under Spec
MaxEvents == 3
\* exceptions the environment may raise per request
MaxFaults == 3
\* largest upload of Spec, in bytes
MaxSmallFile == 1
\* largest upload of SpecChunk, in whole chunks (plus one byte)
MaxChunks == 2
\* provider events delivered per request under SpecChunk
ChunkEvents == 1
\* exceptions the environment may raise per request under SpecChunk
ChunkFaults == 2
\* events per session and exceptions of the environment when two requests
\* run at once
TwoEvents == 1
TwoFaults == 2

(***************************************************************************)
(* Program constants.                                                      *)
(***************************************************************************)
\* main.py:115
chunk_size == 4096

\* main.py:20, the fallback of os.getenv
PLACEHOLDER_KEY == "fb7768611a8ea2a7c76d745ccc056966e5a1a93b"

\* main.py:29
MSG_NOT_CONFIGURED == "Deepgram API key not configured."
\* main.py:76
MSG_UNKNOWN == "Unknown Deepgram error"
\* main.py:111
MSG_CONNECT == "Failed to connect to Deepgram (initiation phase)."
\* main.py:133
PREFIX_DG_ERROR == "Deepgram error: "
\* main.py:136
MSG_NO_SPEECH == "No speech detected or empty audio."
\* main.py:145
PREFIX_API_ERROR == "Deepgram API error: "
\* main.py:148
MSG_AUTH == "Deepgram authentication error. Check API Key."
\* main.py:158
PREFIX_UNEXPECTED == "An unexpected server error occurred: "

\* the registrations without the last one
EventOrder_WithoutUnhandled ==
  << "Open", "Transcript", "Metadata", "SpeechStarted",
     "UtteranceEnd", "Close", "Error" >>

\* main.py:84-91, the events in the order their callbacks are registered
EventOrder ==
  << "Open", "Transcript", "Metadata", "SpeechStarted",
     "UtteranceEnd", "Close", "Error", "Unhandled" >>

(***************************************************************************)
(* Inputs.                                                                 *)
(***************************************************************************)
Reqs == {"r1", "r2"}

\* the environment of the process: DEEPGRAM_API_KEY unset, empty, the
\* placeholder itself, or a real key
EnvKeys == { <<>>, <<"">>, <<PLACEHOLDER_KEY>>, <<"dg-live-key">> }

\* transcripts a Transcript event may carry
Fragments == { "", "hello", "world" }

\* the error object of an Error event: with or without a 'message' entry
ErrorPayloads ==
  { [has |-> FALSE], [has |-> TRUE, message |-> ""],
    [has |-> TRUE, message |-> "boom"], [has |-> TRUE, message |-> "bang"] }

\* str(e) of the exceptions the environment raises, as character sequences
TXT_AUTH == << "B", "a", "d", " ", "A", "u", "t", "h" >>
TXT_TIMEOUT == << "t", "i", "m", "e", "o", "u", "t" >>
ExcTexts == { TXT_AUTH, TXT_TIMEOUT }

\* what a failing call raises: a DeepgramError or any other Exception
Raisable ==
  { [type |-> t, text |-> x] : t \in {"DeepgramError", "Exception"}, x \in ExcTexts }

NoExc == [type |-> "None"]

\* the uploaded file: byte i of an upload (positions differ within and
\* across chunks)
ByteAt(i) == (i + (i \div chunk_size)) % 256
FileBytes(n) == [ i \in 1..n |-> ByteAt(i) ]

SmallSizes == 0..MaxSmallFile
ChunkSizes ==
  { 0, 1, chunk_size - 1, chunk_size, chunk_size + 1 }
    \cup { k * chunk_size : k \in 2..MaxChunks }
    \cup { MaxChunks * chunk_size + 1 }

(***************************************************************************)
(* Python helpers.                                                         *)
(***************************************************************************)
UpperCase ==
  << "A", "B", "C", "D", "E", "F", "G", "H", "I", "J", "K", "L", "M",
     "N", "O", "P", "Q", "R", "S", "T", "U", "V", "W", "X", "Y", "Z" >>
LowerCase ==
  << "a", "b", "c", "d", "e", "f", "g", "h", "i", "j", "k", "l", "m",
     "n", "o", "p", "q", "r", "s", "t", "u", "v", "w", "x", "y", "z" >>

\* str.lower(), one character
LowerChar(c) ==
  IF \E i \in 1..26 : UpperCase[i] = c
  THEN LowerCase[CHOOSE i \in 1..26 : UpperCase[i] = c]
  ELSE c

\* str.lower()
Lower(s) == [ i \in 1..Len(s) |-> LowerChar(s[i]) ]

\* needle in hay
Contains(hay, needle) ==
  \E i \in 0..(Len(hay) - Len(needle)) :
    SubSeq(hay, i + 1, i + Len(needle)) = needle

\* a character sequence as a string
RECURSIVE Str(_)
Str(s) == IF s = <<>> THEN "" ELSE Head(s) \o Str(Tail(s))

\* os.getenv("DEEPGRAM_API_KEY", <placeholder>)
getenv(env) == IF env = <<>> THEN PLACEHOLDER_KEY ELSE env[1]

VARIABLES
  DEEPGRAM_API_KEY,        \* module global, set at import
  pc,                      \* the handler's position, by source line
  dg_connection,           \* "None" or "conn"
  transcription_result,    \* the accumulator of the closures
  deepgram_error_message,  \* <<>> for None, <<m>> for the string m
  callbacks,               \* events with a registered callback, in order
  started,                 \* start() was called: the provider's thread runs
  connected,               \* what is_connected() returns
  fileSize,                \* the upload's size
  filePos,                 \* the upload's read position
  data,                    \* the chunk last read, as a slice of the upload
  sent,                    \* the arguments of the send calls, in order
  ops,                     \* provider calls: [op, line, ret], in order
  exc,                     \* the exception an except clause handles
  pending,                 \* the return value or exception leaving try
  outcome,                 \* what the caller gets
  budget,                  \* provider events still to deliver
  faults,                  \* exceptions the environment may still raise
  delivered,               \* transcripts of the Transcript events so far
  lastErr,                 \* <<payload>> of the last Error event, or <<>>
  errSeen,                 \* lastErr at the handler's last read of the message
  fragSeen,                \* delivered at the handler's last read of the accumulator
  settled,                 \* <<the closures' variables>> when the sleep of line 128 returned
  firstErr                 \* <<payload>> of the first Error event, or <<>>

vars ==
  << DEEPGRAM_API_KEY, pc, dg_connection, transcription_result,
     deepgram_error_message, callbacks, started, connected, fileSize, filePos,
     data, sent, ops, exc, pending, outcome, budget, faults, delivered,
     lastErr, errSeen, fragSeen, settled, firstErr >>

NoOutcome == [kind |-> "none"]

NoData == [off |-> 0, len |-> 0]

\* the state of a request when it arrives (main.py:25, 31-33)
\* the requests of "active" have arrived; request r gets events[r] provider
\* events and raises[r] exceptions of the environment
InitWith(active, sizes, events, raises) ==
  /\ DEEPGRAM_API_KEY \in { getenv(e) : e \in EnvKeys }
  /\ pc = [ r \in Reqs |-> IF r \in active THEN "L27" ELSE "idle" ]
  /\ dg_connection = [ r \in Reqs |-> "None" ]
  /\ transcription_result = [ r \in Reqs |-> "" ]
  /\ deepgram_error_message = [ r \in Reqs |-> <<>> ]
  /\ callbacks = [ r \in Reqs |-> <<>> ]
  /\ started = [ r \in Reqs |-> FALSE ]
  /\ connected = [ r \in Reqs |-> FALSE ]
  /\ fileSize \in [ Reqs -> sizes ]
  /\ \A r \in Reqs \ active : fileSize[r] = 0
  /\ filePos = [ r \in Reqs |-> 0 ]
  /\ data = [ r \in Reqs |-> NoData ]
  /\ sent = [ r \in Reqs |-> <<>> ]
  /\ ops = [ r \in Reqs |-> <<>> ]
  /\ exc = [ r \in Reqs |-> NoExc ]
  /\ pending = [ r \in Reqs |-> NoOutcome ]
  /\ outcome = [ r \in Reqs |-> NoOutcome ]
  /\ budget = [ r \in Reqs |-> IF r \in active THEN events[r] ELSE 0 ]
  /\ faults = [ r \in Reqs |-> IF r \in active THEN raises[r] ELSE 0 ]
  /\ delivered = [ r \in Reqs |-> <<>> ]
  /\ lastErr = [ r \in Reqs |-> <<>> ]
  /\ errSeen = [ r \in Reqs |-> <<>> ]
  /\ fragSeen = [ r \in Reqs |-> <<>> ]
  /\ settled = [ r \in Reqs |-> <<>> ]
  /\ firstErr = [ r \in Reqs |-> <<>> ]

InitRequests(active, sizes, events, raises) ==
  InitWith(active, sizes, [ r \in Reqs |-> events ], [ r \in Reqs |-> raises ])

Init == InitRequests({"r1"}, SmallSizes, MaxEvents, MaxFaults)

InitChunk == InitRequests({"r1"}, ChunkSizes, ChunkEvents, ChunkFaults)

\* two requests at once: r1 uploads one byte and meets the exceptions of the
\* environment, r2 uploads nothing and meets none; each gets provider events
InitTwo ==
  /\ InitWith(Reqs, {0, 1}, [ r \in Reqs |-> TwoEvents ],
              [ r \in Reqs |-> IF r = "r1" THEN TwoFaults ELSE 0 ])
  /\ fileSize = [ r \in Reqs |-> IF r = "r1" THEN 1 ELSE 0 ]

(***************************************************************************)
(* The pure computations of the handler and its callbacks.                 *)
(***************************************************************************)
Set(f, r, v) == [ f EXCEPT ![r] = v ]

\* the key test without "not DEEPGRAM_API_KEY"
KeyMissing_PlaceholderOnly(key) == key = PLACEHOLDER_KEY

\* main.py:27, "not KEY or KEY == <placeholder>"
KeyMissing(key) == key = "" \/ key = PLACEHOLDER_KEY

\* on_message keeping only the last fragment
AppendFragment_KeepsLast(acc, sentence) ==
  IF sentence # "" THEN sentence ELSE acc

\* on_message without the "len(sentence) > 0" test
AppendFragment_NoEmptyTest(acc, sentence) ==
  acc \o (IF acc # "" THEN " " \o sentence ELSE sentence)

\* main.py:54-55, on_message's update of the accumulator
AppendFragment(acc, sentence) ==
  IF sentence # ""
  THEN acc \o (IF acc # "" THEN " " \o sentence ELSE sentence)
  ELSE acc

\* main.py:76, str(error.get('message', 'Unknown Deepgram error'))
ErrorText(payload) == IF payload.has THEN payload.message ELSE MSG_UNKNOWN

\* truth value of deepgram_error_message (None and "" are false)
Truthy(m) == m # <<>> /\ m[1] # ""

HTTPException(code, text) ==
  [kind |-> "raise", exc |-> [type |-> "HTTPException", status |-> code, detail |-> text]]

Propagates(e) == [kind |-> "raise", exc |-> e]

Returns(b) == [kind |-> "body", body |-> b]

\* main.py:111, detail=deepgram_error_message or "Failed to connect ..."
ConnectDetail(m) == IF Truthy(m) THEN m[1] ELSE MSG_CONNECT

\* main.py:133
ErrorBody(m) == [transcription |-> "", error |-> << PREFIX_DG_ERROR \o m >>]

\* main.py:136
NoSpeechBody == [transcription |-> "", error |-> << MSG_NO_SPEECH >>]

\* a success body that carries an error key as well
TranscriptBody_WithErrorKey(t) == [transcription |-> t, error |-> << "" >>]

\* main.py:139
TranscriptBody(t) == [transcription |-> t, error |-> <<>>]

\* a read that asks for one byte less than chunk_size
ReadChunk_OneShort(size, pos) ==
  [off |-> pos,
   len |-> IF size - pos < chunk_size - 1 THEN size - pos ELSE chunk_size - 1]

\* main.py:117, file.read(chunk_size) at read position pos
\* the bytes object read is the slice [off, off + len) of the upload
ReadChunk(size, pos) ==
  [off |-> pos, len |-> IF size - pos < chunk_size THEN size - pos ELSE chunk_size]

\* the bytes of a bytes object
Bytes(chunk) == [ i \in 1..chunk.len |-> ByteAt(chunk.off + i) ]

\* the close guard without the is_connected() test
IsOpen_NoConnectedTest(conn, isConnected) == conn # "None"

\* a close guard that never lets the handler close
IsOpen_Never(conn, isConnected) == FALSE

\* main.py:143, 156, 161: "dg_connection and dg_connection.is_connected()"
IsOpen(conn, isConnected) == conn # "None" /\ isConnected

\* the emptiness test answering False for the empty accumulator
IsEmpty_Never(t) == FALSE

\* main.py:134, "not transcription_result"
IsEmpty(t) == t = ""

\* main.py:145-148
ApiErrorDetail(text) ==
  IF Contains(Lower(text), << "a", "u", "t", "h" >>)
  THEN MSG_AUTH
  ELSE PREFIX_API_ERROR \o Str(text)

\* main.py:158
UnexpectedDetail(text) == PREFIX_UNEXPECTED \o Str(text)

\* an except clause for other exceptions that goes back to start()
ExceptClause_Retry(e) ==
  CASE e.type = "DeepgramError" -> "L143"
    [] e.type = "HTTPException" -> "L150"
    [] OTHER -> "L107"

\* main.py:141, 150, 154: the except clause that catches e
ExceptClause(e) ==
  CASE e.type = "DeepgramError" -> "L143"
    [] e.type = "HTTPException" -> "L150"
    [] OTHER -> "L156"

Call(name, line, ret) == [op |-> name, line |-> line, ret |-> ret]

Registered(r, event) == \E i \in 1..Len(callbacks[r]) : callbacks[r][i] = event

(***************************************************************************)
(* The handler, transcribe_audio, one action per step.                     *)
(***************************************************************************)
\* an exception e raised by the call of a line inside the try block
Raised(e, line) == [type |-> e.type, text |-> e.text, line |-> line]

RaiseInTry(r, e, line) ==
  /\ faults[r] > 0
  /\ e \in Raisable
  /\ faults' = Set(faults, r, faults[r] - 1)
  /\ exc' = Set(exc, r, Raised(e, line))
  /\ pc' = Set(pc, r, ExceptClause(e))

\* main.py:27-29
CheckKey(r) ==
  /\ pc[r] = "L27"
  /\ IF KeyMissing(DEEPGRAM_API_KEY)
     THEN /\ outcome' = Set(outcome, r, HTTPException(500, MSG_NOT_CONFIGURED))
          /\ pc' = Set(pc, r, "done")
     ELSE /\ pc' = Set(pc, r, "L37")
          /\ UNCHANGED outcome
  /\ UNCHANGED << firstErr, settled, DEEPGRAM_API_KEY, dg_connection, transcription_result,
                  deepgram_error_message, callbacks, started, connected,
                  fileSize, filePos, data, sent, ops, exc, pending, budget,
                  faults, delivered, lastErr, errSeen, fragSeen >>

\* main.py:37-44
CreateConnection(r) ==
  /\ pc[r] = "L37"
  /\ \/ /\ dg_connection' = Set(dg_connection, r, "conn")
        /\ ops' = Set(ops, r, Append(ops[r], Call("create", 44, "ok")))
        /\ pc' = Set(pc, r, "L84")
        /\ UNCHANGED << exc, faults >>
     \/ /\ \E e \in Raisable : RaiseInTry(r, e, 44)
        /\ ops' = Set(ops, r, Append(ops[r], Call("create", 44, "raise")))
        /\ UNCHANGED dg_connection
  /\ UNCHANGED << firstErr, settled, DEEPGRAM_API_KEY, transcription_result,
                  deepgram_error_message, callbacks, started, connected,
                  fileSize, filePos, data, sent, pending, outcome, budget,
                  delivered, lastErr, errSeen, fragSeen >>

\* main.py:84-91 (one call of dg_connection.on), then 94-103
RegisterCallback(r) ==
  /\ pc[r] = "L84"
  /\ \/ /\ callbacks' =
             Set(callbacks, r, Append(callbacks[r], EventOrder[Len(callbacks[r]) + 1]))
        /\ pc' = Set(pc, r, IF Len(callbacks[r]) + 1 = Len(EventOrder) THEN "L107" ELSE "L84")
        /\ UNCHANGED << exc, faults >>
     \/ /\ \E e \in Raisable : RaiseInTry(r, e, 84)
        /\ UNCHANGED callbacks
  /\ UNCHANGED << firstErr, settled, DEEPGRAM_API_KEY, dg_connection, transcription_result,
                  deepgram_error_message, started, connected, fileSize,
                  filePos, data, sent, ops, pending, outcome, budget,
                  delivered, lastErr, errSeen, fragSeen >>

\* main.py:107, dg_connection.start(options) is called
StartCall(r) ==
  /\ pc[r] = "L107"
  /\ started' = Set(started, r, TRUE)
  /\ ops' = Set(ops, r, Append(ops[r], Call("start", 107, "called")))
  /\ pc' = Set(pc, r, "L107w")
  /\ UNCHANGED << firstErr, settled, DEEPGRAM_API_KEY, dg_connection, transcription_result,
                  deepgram_error_message, callbacks, connected, fileSize,
                  filePos, data, sent, exc, pending, outcome, budget, faults,
                  delivered, lastErr, errSeen, fragSeen >>

StartResult(r, ret) ==
  ops' = Set(ops, r, [ ops[r] EXCEPT ![Len(ops[r])] = Call("start", 107, ret) ])

\* main.py:107, start returns True or False, or raises
StartReturn(r) ==
  /\ pc[r] = "L107w"
  /\ \/ /\ StartResult(r, "ok")
        /\ connected' = Set(connected, r, TRUE)
        /\ pc' = Set(pc, r, "L117")
        /\ UNCHANGED << exc, faults >>
     \/ /\ StartResult(r, "false")
        /\ pc' = Set(pc, r, "L111")
        /\ UNCHANGED << connected, exc, faults >>
     \/ /\ StartResult(r, "raise")
        /\ \E e \in Raisable : RaiseInTry(r, e, 107)
        /\ UNCHANGED connected
  /\ UNCHANGED << firstErr, settled, DEEPGRAM_API_KEY, dg_connection, transcription_result,
                  deepgram_error_message, callbacks, started, fileSize,
                  filePos, data, sent, pending, outcome, budget, delivered,
                  lastErr, errSeen, fragSeen >>

\* main.py:108-111
FailConnect(r) ==
  /\ pc[r] = "L111"
  /\ errSeen' = Set(errSeen, r, lastErr[r])
  /\ exc' = Set(exc, r, HTTPException(500, ConnectDetail(deepgram_error_message[r])).exc)
  /\ pc' = Set(pc, r, ExceptClause(exc'[r]))
  /\ UNCHANGED << firstErr, settled, DEEPGRAM_API_KEY, dg_connection, transcription_result,
                  deepgram_error_message, callbacks, started, connected,
                  fileSize, filePos, data, sent, ops, pending, outcome,
                  budget, faults, delivered, lastErr, fragSeen >>

\* main.py:117-119
ReadFile(r) ==
  /\ pc[r] = "L117"
  /\ \/ /\ data' = Set(data, r, ReadChunk(fileSize[r], filePos[r]))
        /\ filePos' = Set(filePos, r, filePos[r] + data'[r].len)
        /\ pc' = Set(pc, r, IF data'[r].len = 0 THEN "L124" ELSE "L120")
        /\ UNCHANGED << exc, faults >>
     \/ /\ \E e \in Raisable : RaiseInTry(r, e, 117)
        /\ UNCHANGED << data, filePos >>
  /\ UNCHANGED << firstErr, settled, DEEPGRAM_API_KEY, dg_connection, transcription_result,
                  deepgram_error_message, callbacks, started, connected,
                  fileSize, sent, ops, pending, outcome, budget, delivered,
                  lastErr, errSeen, fragSeen >>

\* main.py:120
Send(r) ==
  /\ pc[r] = "L120"
  /\ sent' = Set(sent, r, Append(sent[r], data[r]))
  /\ \/ /\ ops' = Set(ops, r, Append(ops[r], Call("send", 120, "ok")))
        /\ pc' = Set(pc, r, "L117")
        /\ UNCHANGED << exc, faults >>
     \/ /\ ops' = Set(ops, r, Append(ops[r], Call("send", 120, "raise")))
        /\ \E e \in Raisable : RaiseInTry(r, e, 120)
  /\ UNCHANGED << firstErr, settled, DEEPGRAM_API_KEY, dg_connection, transcription_result,
                  deepgram_error_message, callbacks, started, connected,
                  fileSize, filePos, data, pending, outcome, budget,
                  delivered, lastErr, errSeen, fragSeen >>

\* dg_connection.finish() returns: the session is closed
FinishReturns(r, line) ==
  /\ ops' = Set(ops, r, Append(ops[r], Call("finish", line, "ok")))
  /\ connected' = Set(connected, r, FALSE)
  /\ UNCHANGED faults

\* dg_connection.finish() raises e: the session may or may not be left open
FinishRaises(r, line, e) ==
  /\ faults[r] > 0
  /\ e \in Raisable
  /\ faults' = Set(faults, r, faults[r] - 1)
  /\ ops' = Set(ops, r, Append(ops[r], Call("finish", line, "raise")))
  /\ \E c \in { connected[r], FALSE } : connected' = Set(connected, r, c)

\* main.py:124
EndOfStream(r) ==
  /\ pc[r] = "L124"
  /\ \/ /\ FinishReturns(r, 124)
        /\ pc' = Set(pc, r, "L128")
        /\ UNCHANGED exc
     \/ \E e \in Raisable :
          /\ FinishRaises(r, 124, e)
          /\ exc' = Set(exc, r, Raised(e, 124))
          /\ pc' = Set(pc, r, ExceptClause(e))
  /\ UNCHANGED << firstErr, settled, DEEPGRAM_API_KEY, dg_connection, transcription_result,
                  deepgram_error_message, callbacks, started, fileSize,
                  filePos, data, sent, pending, outcome, budget, delivered,
                  lastErr, errSeen, fragSeen >>

\* main.py:128
Settle(r) ==
  /\ pc[r] = "L128"
  /\ \/ /\ pc' = Set(pc, r, "L131")
        /\ settled' = Set(settled, r, << [transcription_result |-> transcription_result[r],
                                          deepgram_error_message |-> deepgram_error_message[r]] >>)
        /\ UNCHANGED << exc, faults >>
     \/ /\ \E e \in Raisable : RaiseInTry(r, e, 128)
        /\ UNCHANGED settled
  /\ UNCHANGED << firstErr, DEEPGRAM_API_KEY, dg_connection, transcription_result,
                  deepgram_error_message, callbacks, started, connected,
                  fileSize, filePos, data, sent, ops, pending, outcome,
                  budget, delivered, lastErr, errSeen, fragSeen >>

\* main.py:131, "if deepgram_error_message:"
EvalError(r) ==
  /\ pc[r] = "L131"
  /\ errSeen' = Set(errSeen, r, lastErr[r])
  /\ pc' = Set(pc, r, IF Truthy(deepgram_error_message[r]) THEN "L133" ELSE "L134")
  /\ UNCHANGED << firstErr, settled, DEEPGRAM_API_KEY, dg_connection, transcription_result,
                  deepgram_error_message, callbacks, started, connected,
                  fileSize, filePos, data, sent, ops, exc, pending, outcome,
                  budget, faults, delivered, lastErr, fragSeen >>

\* main.py:132-133
ReturnError(r) ==
  /\ pc[r] = "L133"
  /\ errSeen' = Set(errSeen, r, lastErr[r])
  /\ pending' = Set(pending, r, Returns(ErrorBody(deepgram_error_message[r][1])))
  /\ pc' = Set(pc, r, "L161")
  /\ UNCHANGED << firstErr, settled, DEEPGRAM_API_KEY, dg_connection, transcription_result,
                  deepgram_error_message, callbacks, started, connected,
                  fileSize, filePos, data, sent, ops, exc, outcome, budget,
                  faults, delivered, lastErr, fragSeen >>

\* main.py:134-136, "elif not transcription_result:"
EvalTranscript(r) ==
  /\ pc[r] = "L134"
  /\ fragSeen' = Set(fragSeen, r, delivered[r])
  /\ IF IsEmpty(transcription_result[r])
     THEN /\ pending' = Set(pending, r, Returns(NoSpeechBody))
          /\ pc' = Set(pc, r, "L161")
     ELSE /\ pc' = Set(pc, r, "L139")
          /\ UNCHANGED pending
  /\ UNCHANGED << firstErr, settled, DEEPGRAM_API_KEY, dg_connection, transcription_result,
                  deepgram_error_message, callbacks, started, connected,
                  fileSize, filePos, data, sent, ops, exc, outcome, budget,
                  faults, delivered, lastErr, errSeen >>

\* a return that uses the accumulator as it stood when the sleep returned
ReturnTranscript_FromSettled(r) ==
  /\ pc[r] = "L139"
  /\ fragSeen' = Set(fragSeen, r, delivered[r])
  /\ pending' = Set(pending, r, Returns(TranscriptBody(settled[r][1].transcription_result)))
  /\ pc' = Set(pc, r, "L161")
  /\ UNCHANGED << firstErr, settled, DEEPGRAM_API_KEY, dg_connection, transcription_result,
                  deepgram_error_message, callbacks, started, connected,
                  fileSize, filePos, data, sent, ops, exc, outcome, budget,
                  faults, delivered, lastErr, errSeen >>

\* main.py:138-139
ReturnTranscript(r) ==
  /\ pc[r] = "L139"
  /\ fragSeen' = Set(fragSeen, r, delivered[r])
  /\ pending' = Set(pending, r, Returns(TranscriptBody(transcription_result[r])))
  /\ pc' = Set(pc, r, "L161")
  /\ UNCHANGED << firstErr, settled, DEEPGRAM_API_KEY, dg_connection, transcription_result,
                  deepgram_error_message, callbacks, started, connected,
                  fileSize, filePos, data, sent, ops, exc, outcome, budget,
                  faults, delivered, lastErr, errSeen >>

\* an except clause that calls finish without testing the session
HandlerCheck_Unguarded(r) ==
  /\ pc[r] \in {"L143", "L156"}
  /\ pc' = Set(pc, r, IF pc[r] = "L143" THEN "L144" ELSE "L157")
  /\ UNCHANGED << firstErr, settled, DEEPGRAM_API_KEY, dg_connection, transcription_result,
                  deepgram_error_message, callbacks, started, connected,
                  fileSize, filePos, data, sent, ops, exc, pending, outcome,
                  budget, faults, delivered, lastErr, errSeen, fragSeen >>

\* main.py:143 and 156, the is-still-connected check of an except clause
HandlerCheck(r) ==
  /\ pc[r] \in {"L143", "L156"}
  /\ pc' = Set(pc, r,
               IF IsOpen(dg_connection[r], connected[r])
               THEN (IF pc[r] = "L143" THEN "L144" ELSE "L157")
               ELSE (IF pc[r] = "L143" THEN "L145" ELSE "L158"))
  /\ UNCHANGED << firstErr, settled, DEEPGRAM_API_KEY, dg_connection, transcription_result,
                  deepgram_error_message, callbacks, started, connected,
                  fileSize, filePos, data, sent, ops, exc, pending, outcome,
                  budget, faults, delivered, lastErr, errSeen, fragSeen >>

\* main.py:144 and 157, finish() inside an except clause; an exception it
\* raises leaves the clause in place of the HTTPException
HandlerFinish(r) ==
  /\ pc[r] \in {"L144", "L157"}
  /\ LET line == IF pc[r] = "L144" THEN 144 ELSE 157 IN
     \/ /\ FinishReturns(r, line)
        /\ pc' = Set(pc, r, IF pc[r] = "L144" THEN "L145" ELSE "L158")
        /\ UNCHANGED pending
     \/ \E e \in Raisable :
          /\ FinishRaises(r, line, e)
          /\ pending' = Set(pending, r, Propagates(e))
          /\ pc' = Set(pc, r, "L161")
  /\ UNCHANGED << firstErr, settled, DEEPGRAM_API_KEY, dg_connection, transcription_result,
                  deepgram_error_message, callbacks, started, fileSize,
                  filePos, data, sent, exc, outcome, budget, delivered,
                  lastErr, errSeen, fragSeen >>

\* main.py:145-149
RaiseApiError(r) ==
  /\ pc[r] = "L145"
  /\ pending' = Set(pending, r, HTTPException(500, ApiErrorDetail(exc[r].text)))
  /\ pc' = Set(pc, r, "L161")
  /\ UNCHANGED << firstErr, settled, DEEPGRAM_API_KEY, dg_connection, transcription_result,
                  deepgram_error_message, callbacks, started, connected,
                  fileSize, filePos, data, sent, ops, exc, outcome, budget,
                  faults, delivered, lastErr, errSeen, fragSeen >>

\* main.py:150-153
ReraiseHTTP(r) ==
  /\ pc[r] = "L150"
  /\ pending' = Set(pending, r, Propagates(exc[r]))
  /\ pc' = Set(pc, r, "L161")
  /\ UNCHANGED << firstErr, settled, DEEPGRAM_API_KEY, dg_connection, transcription_result,
                  deepgram_error_message, callbacks, started, connected,
                  fileSize, filePos, data, sent, ops, exc, outcome, budget,
                  faults, delivered, lastErr, errSeen, fragSeen >>

\* an except clause that answers with an error body instead of raising
RaiseUnexpected_AsErrorBody(r) ==
  /\ pc[r] = "L158"
  /\ pending' = Set(pending, r, Returns(ErrorBody(UnexpectedDetail(exc[r].text))))
  /\ pc' = Set(pc, r, "L161")
  /\ UNCHANGED << firstErr, settled, DEEPGRAM_API_KEY, dg_connection, transcription_result,
                  deepgram_error_message, callbacks, started, connected,
                  fileSize, filePos, data, sent, ops, exc, outcome, budget,
                  faults, delivered, lastErr, errSeen, fragSeen >>

\* main.py:158
RaiseUnexpected(r) ==
  /\ pc[r] = "L158"
  /\ pending' = Set(pending, r, HTTPException(500, UnexpectedDetail(exc[r].text)))
  /\ pc' = Set(pc, r, "L161")
  /\ UNCHANGED << firstErr, settled, DEEPGRAM_API_KEY, dg_connection, transcription_result,
                  deepgram_error_message, callbacks, started, connected,
                  fileSize, filePos, data, sent, ops, exc, outcome, budget,
                  faults, delivered, lastErr, errSeen, fragSeen >>

\* main.py:159-161, the check of the finally block
FinallyCheck(r) ==
  /\ pc[r] = "L161"
  /\ IF IsOpen(dg_connection[r], connected[r])
     THEN /\ pc' = Set(pc, r, "L163")
          /\ UNCHANGED outcome
     ELSE /\ pc' = Set(pc, r, "done")
          /\ outcome' = Set(outcome, r, pending[r])
  /\ UNCHANGED << firstErr, settled, DEEPGRAM_API_KEY, dg_connection, transcription_result,
                  deepgram_error_message, callbacks, started, connected,
                  fileSize, filePos, data, sent, ops, exc, pending, budget,
                  faults, delivered, lastErr, errSeen, fragSeen >>

\* main.py:162-163, finish() inside finally; an exception it raises
\* replaces the pending return value or exception
FinallyFinish(r) ==
  /\ pc[r] = "L163"
  /\ \/ /\ FinishReturns(r, 163)
        /\ outcome' = Set(outcome, r, pending[r])
     \/ \E e \in Raisable :
          /\ FinishRaises(r, 163, e)
          /\ outcome' = Set(outcome, r, Propagates(e))
  /\ pc' = Set(pc, r, "done")
  /\ UNCHANGED << firstErr, settled, DEEPGRAM_API_KEY, dg_connection, transcription_result,
                  deepgram_error_message, callbacks, started, fileSize,
                  filePos, data, sent, exc, pending, budget, delivered,
                  lastErr, errSeen, fragSeen >>

(***************************************************************************)
(* The provider's event thread: the callbacks of main.py:47-82.            *)
(***************************************************************************)
\* the provider delivers one event to its registered callback
Delivers(r, event) ==
  /\ started[r]
  /\ budget[r] > 0
  /\ Registered(r, event)
  /\ budget' = Set(budget, r, budget[r] - 1)

\* a transcript callback whose accumulator is one variable for all requests
on_message_SharedAccumulator(r) ==
  /\ Delivers(r, "Transcript")
  /\ \E sentence \in Fragments :
       /\ transcription_result' =
            [ q \in Reqs |-> AppendFragment(transcription_result[r], sentence) ]
       /\ delivered' = Set(delivered, r, Append(delivered[r], sentence))
  /\ UNCHANGED << firstErr, settled, DEEPGRAM_API_KEY, pc, dg_connection,
                  deepgram_error_message, callbacks, started, connected,
                  fileSize, filePos, data, sent, ops, exc, pending, outcome,
                  faults, lastErr, errSeen, fragSeen >>

\* main.py:51-56
on_message(r) ==
  /\ Delivers(r, "Transcript")
  /\ \E sentence \in Fragments :
       /\ transcription_result' =
            Set(transcription_result, r, AppendFragment(transcription_result[r], sentence))
       /\ delivered' = Set(delivered, r, Append(delivered[r], sentence))
  /\ UNCHANGED << firstErr, settled, DEEPGRAM_API_KEY, pc, dg_connection, deepgram_error_message,
                  callbacks, started, connected, fileSize, filePos, data,
                  sent, ops, exc, pending, outcome, faults, lastErr, errSeen,
                  fragSeen >>

\* an error callback that keeps the first message it was given
on_error_FirstWins(r) ==
  /\ Delivers(r, "Error")
  /\ \E error \in ErrorPayloads :
       /\ deepgram_error_message' =
            Set(deepgram_error_message, r,
                IF deepgram_error_message[r] = <<>> THEN << ErrorText(error) >>
                ELSE deepgram_error_message[r])
       /\ lastErr' = Set(lastErr, r, << error >>)
       /\ firstErr' = Set(firstErr, r, IF firstErr[r] = <<>> THEN << error >> ELSE firstErr[r])
  /\ UNCHANGED << settled, DEEPGRAM_API_KEY, pc, dg_connection, transcription_result,
                  callbacks, started, connected, fileSize, filePos, data,
                  sent, ops, exc, pending, outcome, faults, delivered,
                  errSeen, fragSeen >>

\* main.py:74-78
on_error(r) ==
  /\ Delivers(r, "Error")
  /\ \E error \in ErrorPayloads :
       /\ deepgram_error_message' = Set(deepgram_error_message, r, << ErrorText(error) >>)
       /\ lastErr' = Set(lastErr, r, << error >>)
       /\ firstErr' = Set(firstErr, r, IF firstErr[r] = <<>> THEN << error >> ELSE firstErr[r])
  /\ UNCHANGED << settled, DEEPGRAM_API_KEY, pc, dg_connection, transcription_result,
                  callbacks, started, connected, fileSize, filePos, data,
                  sent, ops, exc, pending, outcome, faults, delivered,
                  errSeen, fragSeen >>

\* a logging callback that also empties the accumulators
LogOnly_ClearsAccumulator ==
  /\ transcription_result' = [ r \in Reqs |-> "" ]
  /\ UNCHANGED << firstErr, settled, DEEPGRAM_API_KEY, pc, dg_connection,
                  deepgram_error_message, callbacks, started, connected,
                  fileSize, filePos, data, sent, ops, exc, pending, outcome,
                  faults, delivered, lastErr, errSeen, fragSeen >>

\* what a logging-only callback does to the request's state
LogOnly ==
  UNCHANGED << firstErr, settled, DEEPGRAM_API_KEY, pc, dg_connection, transcription_result,
               deepgram_error_message, callbacks, started, connected,
               fileSize, filePos, data, sent, ops, exc, pending, outcome,
               faults, delivered, lastErr, errSeen, fragSeen >>

\* main.py:47-48
on_open(r) == Delivers(r, "Open") /\ LogOnly

\* main.py:59-60
on_metadata(r) == Delivers(r, "Metadata") /\ LogOnly

\* main.py:62-64
on_speech_started(r) == Delivers(r, "SpeechStarted") /\ LogOnly

\* main.py:66-68
on_utterance_end(r) == Delivers(r, "UtteranceEnd") /\ LogOnly

\* main.py:80-82
on_unhandled(r) == Delivers(r, "Unhandled") /\ LogOnly

\* main.py:70-72; the Close event tells that the provider's side has
\* closed the session
on_close(r) ==
  /\ Delivers(r, "Close")
  /\ connected' = Set(connected, r, FALSE)
  /\ UNCHANGED << firstErr, settled, DEEPGRAM_API_KEY, pc, dg_connection, transcription_result,
                  deepgram_error_message, callbacks, started, fileSize,
                  filePos, data, sent, ops, exc, pending, outcome, faults,
                  delivered, lastErr, errSeen, fragSeen >>

Handler(r) ==
  \/ CheckKey(r)
  \/ CreateConnection(r)
  \/ RegisterCallback(r)
  \/ StartCall(r)
  \/ StartReturn(r)
  \/ FailConnect(r)
  \/ ReadFile(r)
  \/ Send(r)
  \/ EndOfStream(r)
  \/ Settle(r)
  \/ EvalError(r)
  \/ ReturnError(r)
  \/ EvalTranscript(r)
  \/ ReturnTranscript(r)
  \/ HandlerCheck(r)
  \/ HandlerFinish(r)
  \/ RaiseApiError(r)
  \/ ReraiseHTTP(r)
  \/ RaiseUnexpected(r)
  \/ FinallyCheck(r)
  \/ FinallyFinish(r)

Provider(r) ==
  \/ on_open(r)
  \/ on_message(r)
  \/ on_metadata(r)
  \/ on_speech_started(r)
  \/ on_utterance_end(r)
  \/ on_close(r)
  \/ on_error(r)
  \/ on_unhandled(r)

Next == \E r \in Reqs : Handler(r) \/ Provider(r)

Spec == Init /\ [][Next]_vars

SpecChunk == InitChunk /\ [][Next]_vars

SpecTwo == InitTwo /\ [][Next]_vars

\* the handler is one coroutine: while it has a next step it takes it (every
\* provider call returns or raises, the sleep ends); the provider is free
\* to deliver its events or not
SpecFair == InitChunk /\ [][Next]_vars /\ \A r \in Reqs : WF_vars(Handler(r))

(***************************************************************************)
(* Vocabulary of the properties.                                           *)
(***************************************************************************)
Done(r) == pc[r] = "done"

\* the handler returned a JSON body (status 200)
ReturnedBody(r) == Done(r) /\ outcome[r].kind = "body"

\* the handler left with an exception
Failed(r) == Done(r) /\ outcome[r].kind = "raise"

\* the non-empty fragments, joined by single spaces, in order
RECURSIVE JoinSpaced(_)
JoinSpaced(fs) ==
  IF fs = <<>> THEN ""
  ELSE LET rest == JoinSpaced(Tail(fs)) IN
       IF Head(fs) = "" THEN rest
       ELSE IF rest = "" THEN Head(fs)
       ELSE Head(fs) \o " " \o rest

\* the provider calls of one kind, in order
CallsOf(r, name) == SelectSeq(ops[r], LAMBDA c : c.op = name)

\* the bytes of a sequence of chunks, end to end
RECURSIVE Flatten(_)
Flatten(chunks) ==
  IF chunks = <<>> THEN <<>> ELSE Bytes(Head(chunks)) \o Flatten(Tail(chunks))

\* the exception texts that mention "auth" in some letter case
AuthTexts == { TXT_AUTH }

(***************************************************************************)
(* C1: when the handler returns a body and no Error event was delivered    *)
(* before it read the captured message, the returned transcription is the  *)
(* non-empty fragments delivered before it read the accumulator, joined by *)
(* exactly one space in arrival order; empty fragments add nothing.        *)
(***************************************************************************)
C1_TranscriptIsSpaceJoin ==
  \A r \in Reqs :
    (ReturnedBody(r) /\ errSeen[r] = <<>>)
      => outcome[r].body.transcription = JoinSpaced(fragSeen[r])

\* three fragments, the middle one empty, came back as "hello world"
C1_Witness ==
  \E r \in Reqs :
    /\ ReturnedBody(r)
    /\ errSeen[r] = <<>>
    /\ fragSeen[r] = << "hello", "", "world" >>
    /\ outcome[r].body.transcription = "hello world"

(***************************************************************************)
(* C2: when an Error event was delivered before the handler read the       *)
(* captured message and the handler returns a body, the body is            *)
(* transcription "" with error "Deepgram error: <last message>", whatever  *)
(* the message and whatever fragments were accumulated.                    *)
(***************************************************************************)
C2_ErrorEventGivesErrorBody ==
  \A r \in Reqs :
    (ReturnedBody(r) /\ errSeen[r] # <<>>)
      => outcome[r].body =
           [transcription |-> "",
            error |-> << PREFIX_DG_ERROR \o ErrorText(errSeen[r][1]) >>]

C5_NoKeyNoProviderCall ==
  (DEEPGRAM_API_KEY = "" \/ DEEPGRAM_API_KEY = PLACEHOLDER_KEY)
    => \A r \in Reqs :
         /\ pc[r] \in {"idle", "L27", "done"}
         /\ ops[r] = <<>>
         /\ dg_connection[r] = "None"
         /\ callbacks[r] = <<>>
         /\ ~started[r]
         /\ sent[r] = <<>>
         /\ Done(r) =>
              outcome[r] =
                [kind |-> "raise",
                 exc |-> [type |-> "HTTPException", status |-> 500,
                          detail |-> MSG_NOT_CONFIGURED]]

\* a request with the empty credential was refused
C5_Witness ==
  \E r \in Reqs :
    /\ DEEPGRAM_API_KEY = ""
    /\ Failed(r)
    /\ outcome[r].exc.status = 500
    /\ ops[r] = <<>>

(***************************************************************************)
(* C6: a returned body is transcription "" with the "No speech detected    *)
(* or empty audio." error whenever no Error event was delivered before the *)
(* handler read the captured message and no non-empty fragment before it   *)
(* read the accumulator; an empty upload sends nothing.                    *)
(***************************************************************************)
C6_NothingHeardGivesNoSpeech ==
  \A r \in Reqs :
    ( /\ ReturnedBody(r)
      /\ errSeen[r] = <<>>
      /\ \A i \in 1..Len(fragSeen[r]) : fragSeen[r][i] = "" )
      => /\ outcome[r].body = [transcription |-> "", error |-> << MSG_NO_SPEECH >>]
         /\ fileSize[r] = 0 => sent[r] = <<>>

\* an empty upload and a silent provider
C6_Witness ==
  \E r \in Reqs :
    /\ ReturnedBody(r)
    /\ fileSize[r] = 0
    /\ budget[r] = MaxEvents
    /\ CallsOf(r, "send") = <<>>
    /\ outcome[r].body = [transcription |-> "", error |-> << MSG_NO_SPEECH >>]

(***************************************************************************)
(* C7: when the read loop ends on a started session, the upload of S bytes *)
(* went out in ceil(S/4096) send calls of 1..4096 bytes each, all but the  *)
(* last of 4096 bytes, whose concatenation is the upload byte for byte.    *)
(***************************************************************************)
C7_ChunksCoverUpload ==
  \A r \in Reqs :
    pc[r] = "L124" =>
      LET n == Len(sent[r]) IN
        /\ n = (fileSize[r] + chunk_size - 1) \div chunk_size
        /\ Len(CallsOf(r, "send")) = n
        /\ \A i \in 1..n :
             /\ sent[r][i].len >= 1
             /\ sent[r][i].len <= chunk_size
             /\ i < n => sent[r][i].len = chunk_size
        /\ Flatten(sent[r]) = FileBytes(fileSize[r])

\* 4097 bytes went out as 4096 + 1
C7_Witness ==
  \E r \in Reqs :
    /\ pc[r] = "L124"
    /\ fileSize[r] = chunk_size + 1
    /\ Len(sent[r]) = 2
    /\ sent[r][2].len = 1

(***************************************************************************)
(* C8: when start returns a failure indication the request ends with HTTP  *)
(* 500 whose detail is the message of the last Error event delivered       *)
(* before the handler read it, or the generic "Failed to connect" message  *)
(* when no Error event was delivered; the detail reaches the caller as is. *)
(***************************************************************************)
C8_ConnectFailureDetail ==
  \A r \in Reqs :
    (Done(r) /\ CallsOf(r, "start") = << Call("start", 107, "false") >>)
      => outcome[r] =
           [kind |-> "raise",
            exc |-> [type |-> "HTTPException", status |-> 500,
                     detail |-> IF errSeen[r] # <<>>
                                THEN ErrorText(errSeen[r][1])
                                ELSE MSG_CONNECT]]

(***************************************************************************)
(* C9: when a DeepgramError is raised during session setup or streaming    *)
(* (main.py:37-120), the request ends with HTTP 500 whose detail is the    *)
(* "authentication error" message if the exception text mentions "auth"    *)
(* in any letter case and "Deepgram API error: <text>" otherwise, and the  *)
(* session is not connected.                                               *)
(***************************************************************************)
C9_ProviderExceptionReported ==
  \A r \in Reqs :
    (Done(r) /\ exc[r].type = "DeepgramError" /\ exc[r].line <= 120)
      => /\ outcome[r] =
              [kind |-> "raise",
               exc |-> [type |-> "HTTPException", status |-> 500,
                        detail |-> IF exc[r].text \in AuthTexts
                                   THEN MSG_AUTH
                                   ELSE PREFIX_API_ERROR \o Str(exc[r].text)]]
         /\ ~connected[r]

(***************************************************************************)
(* C10: a returned body never has a non-empty transcription together with  *)
(* an error key.                                                           *)
(***************************************************************************)
C10_TranscriptOrError ==
  \A r \in Reqs :
    ReturnedBody(r) =>
      /\ outcome[r].body.error # <<>> => outcome[r].body.transcription = ""
      /\ outcome[r].body.transcription # "" => outcome[r].body.error = <<>>

\* a transcript came back, with no error key, although an Error event
\* arrived during the final evaluation
C10_Witness ==
  \E r \in Reqs :
    /\ ReturnedBody(r)
    /\ outcome[r].body.transcription = "hello"
    /\ outcome[r].body.error = <<>>
    /\ Truthy(deepgram_error_message[r])

(***************************************************************************)
(* Vocabulary of the later properties.                                     *)
(***************************************************************************)
\* the credential test of main.py:27 fails
BadKey == DEEPGRAM_API_KEY = "" \/ DEEPGRAM_API_KEY = PLACEHOLDER_KEY

\* start was called and returned r's session as ret
StartEnded(r, ret) == CallsOf(r, "start") = << Call("start", 107, ret) >>

\* a call inside the try block raised (setup, streaming, end-of-stream
\* or the settle wait)
RaisedInTry(r) == exc[r].type \in {"DeepgramError", "Exception"}

(***************************************************************************)
(* C11: a finished request ended with an exception (status 500) exactly    *)
(* when the credential test failed, start reported failure or a call of    *)
(* the try block raised; it ended with a returned body exactly when start  *)
(* succeeded and streaming, end-of-stream and the settle wait raised       *)
(* nothing, also when an Error event was captured on the way.              *)
(***************************************************************************)
C11_OutcomeShapeByPhase ==
  \A r \in Reqs :
    Done(r) =>
      LET failure == BadKey \/ StartEnded(r, "false") \/ RaisedInTry(r) IN
        /\ outcome[r].kind \in {"raise", "body"}
        /\ outcome[r].kind = "raise" <=> failure
        /\ outcome[r].kind = "body" <=>
             /\ StartEnded(r, "ok")
             /\ \E i \in 1..Len(ops[r]) : ops[r][i] = Call("finish", 124, "ok")
             /\ ~RaisedInTry(r)
        /\ (outcome[r].kind = "raise" /\ outcome[r].exc.type = "HTTPException")
             => outcome[r].exc.status = 500

\* an Error event was captured mid-session and the request still got a body
C11_Witness ==
  \E r \in Reqs :
    /\ ReturnedBody(r)
    /\ StartEnded(r, "ok")
    /\ sent[r] # <<>>
    /\ outcome[r].body = [transcription |-> "", error |-> << PREFIX_DG_ERROR \o "boom" >>]

\* the places of the calls of one kind in the log of provider calls
PlacesOf(r, name) == { i \in 1..Len(ops[r]) : ops[r][i].op = name }

\* the place of the end-of-stream call (main.py:124), if it was made
EndOfStreamPlaces(r) ==
  { i \in 1..Len(ops[r]) : ops[r][i].op = "finish" /\ ops[r][i].line = 124 }

(***************************************************************************)
(* C12: the provider calls of a request are ordered: the callbacks of all  *)
(* eight events are registered when start is called; every send follows    *)
(* the successful return of start; the sends carry consecutive slices of   *)
(* the upload, in file order; the end-of-stream finish follows every send  *)
(* and the whole upload; a failed start is followed by no send and no      *)
(* end-of-stream finish.                                                   *)
(***************************************************************************)
C12_ProviderCallOrder ==
  \A r \in Reqs :
    /\ started[r] =>
         { callbacks[r][i] : i \in 1..Len(callbacks[r]) } =
           { "Open", "Transcript", "Metadata", "SpeechStarted",
             "UtteranceEnd", "Close", "Error", "Unhandled" }
    /\ PlacesOf(r, "send") # {} =>
         /\ StartEnded(r, "ok")
         /\ \A i \in PlacesOf(r, "start"), j \in PlacesOf(r, "send") : i < j
    /\ Len(sent[r]) = Cardinality(PlacesOf(r, "send"))
    /\ \A i \in 1..Len(sent[r]) :
         sent[r][i].off = (IF i = 1 THEN 0 ELSE sent[r][i - 1].off + sent[r][i - 1].len)
    /\ \A e \in EndOfStreamPlaces(r) :
         /\ \A j \in PlacesOf(r, "send") : j < e
         /\ fileSize[r] =
              (IF sent[r] = <<>> THEN 0
               ELSE sent[r][Len(sent[r])].off + sent[r][Len(sent[r])].len)
    /\ StartEnded(r, "false") =>
         PlacesOf(r, "send") = {} /\ EndOfStreamPlaces(r) = {}

\* create, start, two sends, end of stream: in this order
C12_Witness ==
  \E r \in Reqs :
    /\ fileSize[r] = 2 * chunk_size
    /\ ops[r] = << Call("create", 44, "ok"), Call("start", 107, "ok"),
                   Call("send", 120, "ok"), Call("send", 120, "ok"),
                   Call("finish", 124, "ok") >>
    /\ sent[r][2].off = chunk_size

\* the session of the request has been closed: a finish call was issued on
\* it, or it reported that it is not connected (start did not return True,
\* or the session went down after start had returned True)
Closed(r) ==
  \/ PlacesOf(r, "finish") # {}
  \/ StartEnded(r, "false")
  \/ StartEnded(r, "raise")
  \/ StartEnded(r, "ok") /\ ~connected[r]

\* the handler is about to make one of its guarded finish calls
AtGuardedFinish(r) == pc[r] \in {"L144", "L157", "L163"}

(***************************************************************************)
(* C13: once the session of a request has been closed (a finish call was   *)
(* issued, or the session reported that it is not connected), no step adds *)
(* a send or a start call of that request; the only calls that follow are  *)
(* finish calls at main.py:144, 157 and 163, and the handler reaches each  *)
(* of them only by a step that found the session still connected.          *)
(***************************************************************************)
C13_ClosedNeverReused ==
  [][ \A r \in Reqs :
        /\ Closed(r) =>
             /\ PlacesOf(r, "send")' = PlacesOf(r, "send")
             /\ PlacesOf(r, "start")' = PlacesOf(r, "start")
             /\ \A i \in PlacesOf(r, "finish")' \ PlacesOf(r, "finish") :
                  ops'[r][i].line \in {144, 157, 163}
        /\ (AtGuardedFinish(r)' /\ pc'[r] # pc[r]) =>
             (dg_connection[r] # "None" /\ connected[r]) ]_vars


\* the handler itself ended the session: it issued a finish call, or its
\* start call did not return True
ClosedByHandler(r) ==
  \/ PlacesOf(r, "finish") # {}
  \/ StartEnded(r, "false")
  \/ StartEnded(r, "raise")

(***************************************************************************)
(* C13, amended: once the handler has issued a finish call, or its start   *)
(* call has not returned True, no step adds a send or a start call of that *)
(* request; the only calls that follow are finish calls at main.py:144,    *)
(* 157 and 163, and the handler reaches each of them only by a step that   *)
(* found the session still connected.  A session that the provider closed  *)
(* during the upload is not covered: the read loop tests nothing and sends *)
(* the next chunk, and the finish call of main.py:124 is not guarded.      *)
(***************************************************************************)
C13_HandlerClosedNeverReused ==
  [][ \A r \in Reqs :
        /\ ClosedByHandler(r) =>
             /\ PlacesOf(r, "send")' = PlacesOf(r, "send")
             /\ PlacesOf(r, "start")' = PlacesOf(r, "start")
             /\ \A i \in PlacesOf(r, "finish")' \ PlacesOf(r, "finish") :
                  ops'[r][i].line \in {144, 157, 163}
        /\ (AtGuardedFinish(r)' /\ pc'[r] # pc[r]) =>
             (dg_connection[r] # "None" /\ connected[r]) ]_vars

\* the end-of-stream call raised after a chunk was sent, the session was
\* still connected, and the only call after it is the guarded finish of
\* the except clause
C13_Witness ==
  \E r \in Reqs :
    /\ Done(r)
    /\ ops[r] = << Call("create", 44, "ok"), Call("start", 107, "ok"),
                   Call("send", 120, "ok"), Call("finish", 124, "raise"),
                   Call("finish", 157, "ok") >>


\* main.py:131-139 evaluated on one pair of values of the closures' variables
ResponseOf(t, m) ==
  IF Truthy(m) THEN ErrorBody(m[1])
  ELSE IF IsEmpty(t) THEN NoSpeechBody
  ELSE TranscriptBody(t)

(***************************************************************************)
(* C14, as claimed: a returned body is the evaluation of main.py:131-139   *)
(* on the accumulator and the captured message exactly as they stood when  *)
(* the sleep of main.py:128 returned; no later event changes it.           *)
(***************************************************************************)
C14_ResponseFromSettledState ==
  \A r \in Reqs :
    ReturnedBody(r) =>
      /\ settled[r] # <<>>
      /\ outcome[r].body = ResponseOf(settled[r][1].transcription_result,
                                      settled[r][1].deepgram_error_message)

(***************************************************************************)
(* C14, amended: a returned body is computed from the captured message as  *)
(* the handler reads it at main.py:131 and 133 and from the accumulator as *)
(* it reads it at main.py:134 and 139, all after the sleep has returned.   *)
(* An event delivered between the end of the sleep and one of these reads  *)
(* does change the body; an event delivered after the last read does not,  *)
(* so a fragment the provider emitted can be missing from the transcript.  *)
(***************************************************************************)
C14_ResponseFromHandlerReads ==
  \A r \in Reqs :
    ReturnedBody(r) =>
      /\ settled[r] # <<>>
      /\ outcome[r] = pending[r]
      /\ \/ /\ errSeen[r] # <<>>
            /\ outcome[r].body = ErrorBody(ErrorText(errSeen[r][1]))
         \/ /\ JoinSpaced(fragSeen[r]) = ""
            /\ outcome[r].body = NoSpeechBody
         \/ /\ JoinSpaced(fragSeen[r]) # ""
            /\ outcome[r].body = TranscriptBody(JoinSpaced(fragSeen[r]))

\* "hello" arrived after the sleep and before the reads and is returned,
\* "world" arrived after the last read and is missing
C14_Witness ==
  \E r \in Reqs :
    /\ ReturnedBody(r)
    /\ settled[r] = << [transcription_result |-> "", deepgram_error_message |-> <<>>] >>
    /\ delivered[r] = << "hello", "world" >>
    /\ outcome[r].body = TranscriptBody("hello")


\* the body carries a provider message: "Deepgram error: ..." of main.py:133
ReportsProviderError(r) ==
  /\ ReturnedBody(r)
  /\ outcome[r].body.error # <<>>
  /\ outcome[r].body # NoSpeechBody

Informational(r) ==
  \/ on_open(r)
  \/ on_metadata(r)
  \/ on_speech_started(r)
  \/ on_utterance_end(r)
  \/ on_close(r)
  \/ on_unhandled(r)

(***************************************************************************)
(* C16: a step of the open, metadata, speech-started, utterance-end, close *)
(* or unhandled callback leaves the accumulator and the captured message   *)
(* as they were; a step that changes the accumulator is a step of the      *)
(* transcript callback and leaves the captured message alone; a step that  *)
(* changes the captured message is a step of the error callback and leaves *)
(* the accumulator alone.                                                  *)
(***************************************************************************)
C16_CallbackFrames ==
  [][ \A r \in Reqs :
        /\ Informational(r) =>
             UNCHANGED << transcription_result, deepgram_error_message >>
        /\ transcription_result'[r] # transcription_result[r] =>
             on_message(r) /\ UNCHANGED deepgram_error_message
        /\ deepgram_error_message'[r] # deepgram_error_message[r] =>
             on_error(r) /\ UNCHANGED transcription_result ]_vars

\* a Transcript, an Error and a Close event were delivered, in some order:
\* the Close event disconnected the session and the two values stand
C16_Witness ==
  \E r \in Reqs :
    /\ budget[r] = MaxEvents - 3
    /\ StartEnded(r, "ok")
    /\ PlacesOf(r, "finish") = {}
    /\ ~connected[r]
    /\ transcription_result[r] = "hello"
    /\ deepgram_error_message[r] = << "boom" >>


\* everything request q owns: the locals of its call and what its caller gets
OwnState(q) ==
  << pc[q], dg_connection[q], transcription_result[q],
     deepgram_error_message[q], callbacks[q], connected[q], filePos[q],
     sent[q], ops[q], exc[q], pending[q], outcome[q] >>

(***************************************************************************)
(* C17: with two requests in progress, a step of one request, whether a    *)
(* step of its handler or an event delivered on its session, leaves the    *)
(* other request's accumulator, captured message, pending and final        *)
(* response and every other local of it unchanged; and each request's      *)
(* accumulator and captured message are those of the events of its own     *)
(* session.                                                                *)
(***************************************************************************)
C17_RequestsIsolated ==
  [][ \A r \in Reqs : \A q \in Reqs \ {r} :
        /\ (Handler(r) \/ Provider(r)) => OwnState(q)' = OwnState(q)
        /\ transcription_result'[q] = JoinSpaced(delivered'[q])
        /\ deepgram_error_message'[q] =
             (IF lastErr'[q] = <<>> THEN <<>> ELSE << ErrorText(lastErr'[q][1]) >>) ]_vars

\* both requests were in progress together; r1 heard "hello" and returned
\* it, r2 was told "boom" and returned that
C17_Witness ==
  /\ ReturnedBody("r1")
  /\ ReturnedBody("r2")
  /\ outcome["r1"].body = TranscriptBody("hello")
  /\ outcome["r2"].body = ErrorBody("boom")


\* the handler has met a failure: the credential test failed, start did not
\* return True, or an exception was raised in the try block
HandlerFailure(r) ==
  \/ outcome[r].kind = "raise"
  \/ StartEnded(r, "false")
  \/ StartEnded(r, "raise")
  \/ exc[r] # NoExc

\* no step adds a start or a send call of request r
NoNewStartOrSend(r) ==
  /\ PlacesOf(r, "send")' = PlacesOf(r, "send")
  /\ PlacesOf(r, "start")' = PlacesOf(r, "start")

\* at most one session is created and start is called at most once
AtMostOneSession(r) ==
  /\ Cardinality(PlacesOf(r, "create")) <= 1
  /\ Cardinality(PlacesOf(r, "start")) <= 1

(***************************************************************************)
(* C18, as claimed: a request creates at most one session and calls start  *)
(* at most once, and once it has met a failure (credential test, start     *)
(* failure, Error event of the provider, exception) no step adds a start   *)
(* or a send call.                                                         *)
(***************************************************************************)
C18_NoRetryAfterAnyFailure ==
  [][ \A r \in Reqs :
        /\ AtMostOneSession(r)'
        /\ (HandlerFailure(r) \/ lastErr[r] # <<>>) => NoNewStartOrSend(r) ]_vars

(***************************************************************************)
(* C18, amended: a request creates at most one session and calls start at  *)
(* most once, and once the credential test has failed, start has not       *)
(* returned True or an exception was raised in the try block, no step adds *)
(* a start or a send call.  An Error event of the provider is not such a   *)
(* failure for the upload: the handler goes on sending the chunks that are *)
(* left and reports the error only in the final evaluation.                *)
(***************************************************************************)
C18_NoRetryAfterHandlerFailure ==
  [][ \A r \in Reqs :
        /\ AtMostOneSession(r)'
        /\ HandlerFailure(r) => NoNewStartOrSend(r) ]_vars

\* the first send of a two-chunk upload raised: the second chunk was never
\* sent, start was not called again, and the request ended with an error
C18_Witness ==
  \E r \in Reqs :
    /\ Failed(r)
    /\ fileSize[r] = 2 * chunk_size
    /\ ops[r] = << Call("create", 44, "ok"), Call("start", 107, "ok"),
                   Call("send", 120, "raise"), Call("finish", 157, "ok") >>


\* what one step can add to the accumulator: nothing, a fragment, or a
\* space and a fragment
Suffixes == { "" } \cup Fragments \cup { " " \o f : f \in Fragments }

\* a is a prefix of b, for the accumulator before and after one step
IsPrefix(a, b) == \E x \in Suffixes : b = a \o x

(***************************************************************************)
(* C19: in every step the accumulator before the step is a prefix of the   *)
(* accumulator after it; a step that is not a step of the error callback   *)
(* leaves the captured message as it was, and no step at all takes a       *)
(* captured message back to None.                                          *)
(***************************************************************************)
C19_Monotone ==
  [][ \A r \in Reqs :
        /\ IsPrefix(transcription_result[r], transcription_result'[r])
        /\ ~on_error(r) => deepgram_error_message'[r] = deepgram_error_message[r]
        /\ deepgram_error_message[r] # <<>> => deepgram_error_message'[r] # <<>> ]_vars

\* the request ended after two fragments and an error: the accumulator
\* holds both fragments and the message is still captured
C19_Witness ==
  \E r \in Reqs :
    /\ Done(r)
    /\ budget[r] = MaxEvents - 3
    /\ transcription_result[r] = "hello world"
    /\ deepgram_error_message[r] = << "boom" >>


\* the request has arrived and its handler has not finished
Running(r) == pc[r] \notin {"idle", "done"}

\* the handler returned a body or raised an HTTP error
BodyOrHTTPError(r) ==
  \/ outcome[r].kind = "body"
  \/ outcome[r].kind = "raise" /\ outcome[r].exc.type = "HTTPException"

\* every request that has arrived ends, with some outcome
Terminates == \A r \in Reqs : Running(r) ~> (Done(r) /\ outcome[r] # NoOutcome)

(***************************************************************************)
(* C20: every request that has arrived eventually ends, and it ends with a *)
(* returned body or a raised HTTP error, whatever events the provider      *)
(* delivers and however they interleave with the handler.                  *)
(***************************************************************************)
C20_TerminatesWithBodyOrHTTPError ==
  \A r \in Reqs : Running(r) ~> (Done(r) /\ BodyOrHTTPError(r))

====
